---- MODULE Spec2Model ----
(***************************************************************************)
(* Model of sdwan_geocoding_clean.py: the reverse-geocoding service with   *)
(* its in-process cache (GeocodeService), the controller client and site   *)
(* aggregation (SDWANSiteExtractorWithGeo) and the orchestrator (main).    *)
(*                                                                         *)
(* Python values are modelled as strings: None is NULL, a float is its     *)
(* repr, a dict is a function whose DOMAIN is the set of keys present.     *)
(***************************************************************************)
EXTENDS Integers, Sequences, FiniteSets, TLC

VARIABLES cache, lastCall, ncalls, firstOk,
          pc, token, inventory, idx, sites, tloc_data,
          exitStatus, crashedIn, rendered, failure

vars == <<cache, lastCall, ncalls, firstOk,
          pc, token, inventory, idx, sites, tloc_data,
          exitStatus, crashedIn, rendered, failure>>

geoVars == <<lastCall, ncalls, firstOk>>

mainVars == <<pc, token, inventory, idx, sites, tloc_data,
              exitStatus, crashedIn, rendered, failure>>

----------------------------------------------------------------------------
(* Bounds *)

MaxCalls == 3

MaxDevices == 3

----------------------------------------------------------------------------
(* Python values *)

\* Python None / JSON null
NULL == "<None>"

\* a JSON number where a string is expected
NUMBER == "<number>"

\* marker used only to build dicts with optional keys
OMIT == "<omitted>"

\* the empty dict
EmptyDict == [k \in {} |-> ""]

\* None where a dict is expected (address: null)
NoneDict == [k \in {"<None>"} |-> "<None>"]

\* keep only the keys that are present
Dict(f) == [k \in {x \in DOMAIN f : f[x] # OMIT} |-> f[k]]

\* dict.get(k, default)
Get(d, k, default) == IF k \in DOMAIN d THEN d[k] ELSE default

\* truth value of a Python object (None and '' are false)
Truthy(v) == v \notin {NULL, ""}

\* a or b
Or(a, b) == IF Truthy(a) THEN a ELSE b

\* str.upper() on the country codes that occur
Upper(s) ==
    CASE s = "us" -> "US"
      [] s = "ca" -> "CA"
      [] OTHER -> s

\* float(s): the repr of the parsed float, or ValueError
ParsableFloat(s) == s \in {"37.7749", "-122.4194", "1", "1.0", "2", "2.0"}

ParseFloat(s) ==
    CASE s = "1" -> "1.0"
      [] s = "2" -> "2.0"
      [] OTHER -> s

RECURSIVE JoinComma(_)
\* ', '.join(components)
JoinComma(components) ==
    IF components = <<>> THEN ""
    ELSE IF Len(components) = 1 THEN components[1]
    ELSE components[1] \o ", " \o JoinComma(Tail(components))

----------------------------------------------------------------------------
(* GeocodeService *)

GeoFields == {"display_name", "city", "state", "country", "country_code",
              "postcode", "formatted_address"}

\* f"{lat},{lon}"
CacheKey(lat, lon) == lat \o "," \o lon

\* address.get('city') or address.get('town') or address.get('village')
\*   or address.get('hamlet', 'Unknown City')
CityOf(address) ==
    Or(Get(address, "city", NULL),
       Or(Get(address, "town", NULL),
          Or(Get(address, "village", NULL),
             Get(address, "hamlet", "Unknown City"))))

\* address.get('state') or address.get('province', 'Unknown State')
StateOf(address) ==
    Or(Get(address, "state", NULL), Get(address, "province", "Unknown State"))

\* the components list of _format_address
AddressComponents(address) ==
    LET city == Or(Get(address, "city", NULL),
                   Or(Get(address, "town", NULL),
                      Or(Get(address, "village", NULL),
                         Get(address, "hamlet", NULL))))
        state == Or(Get(address, "state", NULL), Get(address, "province", NULL))
        country == Get(address, "country", NULL)
    IN  (IF Truthy(city) THEN <<city>> ELSE <<>>)
        \o (IF Truthy(state) THEN <<state>> ELSE <<>>)
        \o (IF Truthy(country) THEN <<country>> ELSE <<>>)

\* _format_address
format_address(address) ==
    IF AddressComponents(address) # <<>>
    THEN JoinComma(AddressComponents(address))
    ELSE "Unknown Location"

\* the exception, if any, raised while the try block handles the response
TryException(outcome) ==
    CASE outcome.kind = "timeout" -> "Timeout"
      [] outcome.kind = "connection_error" -> "ConnectionError"
      [] outcome.kind = "status" -> "none"
      [] outcome.kind = "bad_json" -> "JSONDecodeError"
      [] outcome.kind = "not_object" -> "AttributeError"
      [] outcome.kind = "ok" ->
            IF Get(outcome.data, "address", EmptyDict) = NoneDict
            THEN "AttributeError"
            ELSE LET address == Get(outcome.data, "address", EmptyDict)
                 IN  IF Get(address, "country_code", "") \in {NULL, NUMBER}
                     THEN "AttributeError"
                     ELSE IF \E i \in 1..Len(AddressComponents(address)) :
                                 AddressComponents(address)[i] = NUMBER
                     THEN "TypeError"
                     ELSE "none"

\* the location_info dict built from a 200 response
LocationInfo(data) ==
    LET address == Get(data, "address", EmptyDict)
    IN  [display_name |-> Get(data, "display_name", "Unknown Location"),
         city |-> CityOf(address),
         state |-> StateOf(address),
         country |-> Get(address, "country", "Unknown Country"),
         country_code |-> Upper(Get(address, "country_code", "")),
         postcode |-> Get(address, "postcode", ""),
         formatted_address |-> format_address(address)]

\* the dict returned after the try block
Placeholder(lat, lon) ==
    [display_name |-> "Location at " \o lat \o ", " \o lon,
     city |-> "Unknown City",
     state |-> "Unknown State",
     country |-> "Unknown Country",
     country_code |-> "",
     postcode |-> "",
     formatted_address |-> lat \o ", " \o lon]

\* requests.get raised: the statements after it in the try block are skipped
RequestRaised(outcome) == outcome.kind \in {"timeout", "connection_error"}

\* time.sleep(1) is the statement after requests.get
Sleeps(outcome) == IF RequestRaised(outcome) THEN 0 ELSE 1

\* except Exception
CaughtOnlyRequestErrors(exc) == exc \in {"Timeout", "ConnectionError"}

Caught(exc) ==
    exc \in {"Timeout", "ConnectionError", "JSONDecodeError",
             "AttributeError", "TypeError"}

\* the cache after a cache miss
StoreAlways(c, lat, lon, outcome) ==
    IF outcome.kind = "ok" /\ TryException(outcome) = "none"
    THEN (CacheKey(lat, lon) :> LocationInfo(outcome.data)) @@ c
    ELSE (CacheKey(lat, lon) :> Placeholder(lat, lon)) @@ c

Store(c, lat, lon, outcome) ==
    IF outcome.kind = "ok" /\ TryException(outcome) = "none"
    THEN (CacheKey(lat, lon) :> LocationInfo(outcome.data)) @@ c
    ELSE c

\* if f"{lat},{lon}" in self.cache
NeverHit(c, lat, lon) == FALSE

CacheHit(c, lat, lon) == CacheKey(lat, lon) \in DOMAIN c

\* reverse_geocode_nominatim: the value returned (or the exception that
\* escapes), the cache afterwards, the requests issued and the pauses taken
reverse_geocode_nominatim(c, lat, lon, outcome) ==
    IF CacheHit(c, lat, lon)
    THEN [ret |-> c[CacheKey(lat, lon)], raised |-> "none", cache |-> c,
          requests |-> 0, sleeps |-> 0, warned |-> FALSE]
    ELSE LET exc == TryException(outcome)
         IN  IF exc # "none" /\ ~Caught(exc)
             THEN [ret |-> EmptyDict, raised |-> exc, cache |-> c,
                   requests |-> 1, sleeps |-> Sleeps(outcome),
                   warned |-> FALSE]
             ELSE IF exc = "none" /\ outcome.kind = "ok"
             THEN [ret |-> LocationInfo(outcome.data), raised |-> "none",
                   cache |-> Store(c, lat, lon, outcome),
                   requests |-> 1, sleeps |-> Sleeps(outcome),
                   warned |-> FALSE]
             ELSE [ret |-> Placeholder(lat, lon), raised |-> "none",
                   cache |-> Store(c, lat, lon, outcome),
                   requests |-> 1, sleeps |-> Sleeps(outcome),
                   warned |-> (exc # "none")]

----------------------------------------------------------------------------
(* Responses of the geocoding service *)

Lats == {"37.7749", "1.0"}

Lons == {"-122.4194"}

CityParts ==
    [city : {OMIT, "San Francisco"},
     town : {OMIT, ""},
     village : {OMIT, NULL},
     hamlet : {OMIT, NULL, "", "Muir Beach"}]

RestParts ==
    { [state |-> "California", province |-> OMIT, country |-> "United States",
       country_code |-> "us", postcode |-> "94103"],
      [state |-> OMIT, province |-> OMIT, country |-> OMIT,
       country_code |-> OMIT, postcode |-> OMIT] }

OddParts ==
    { [state |-> OMIT, province |-> "British Columbia", country |-> "Canada",
       country_code |-> NULL, postcode |-> OMIT],
      [state |-> NULL, province |-> OMIT, country |-> NUMBER,
       country_code |-> "ca", postcode |-> OMIT] }

Address(cp, rp) ==
    Dict([city |-> cp.city, town |-> cp.town, village |-> cp.village,
          hamlet |-> cp.hamlet, state |-> rp.state, province |-> rp.province,
          country |-> rp.country, country_code |-> rp.country_code,
          postcode |-> rp.postcode])

Addresses ==
    {Address(cp, CHOOSE rp \in RestParts : rp.state = OMIT) : cp \in CityParts}
    \cup {Address([city |-> "San Francisco", town |-> OMIT, village |-> OMIT,
                   hamlet |-> OMIT], rp) : rp \in RestParts \cup OddParts}

OkOutcomes ==
    {[kind |-> "ok", data |-> [display_name |-> "somewhere", address |-> a]] :
        a \in Addresses}
    \cup {[kind |-> "ok", data |-> [address |-> NoneDict]],
          [kind |-> "ok", data |-> EmptyDict]}

FailOutcomes ==
    {[kind |-> "timeout"], [kind |-> "connection_error"], [kind |-> "status"],
     [kind |-> "bad_json"], [kind |-> "not_object"]}

Outcomes == OkOutcomes \cup FailOutcomes

----------------------------------------------------------------------------
(* The geocoder called repeatedly *)

NoCall ==
    [lat |-> "", lon |-> "", outcome |-> [kind |-> "none"], hit |-> FALSE,
     retry |-> FALSE,
     result |-> [ret |-> EmptyDict, raised |-> "none", cache |-> EmptyDict,
                 requests |-> 0, sleeps |-> 0, warned |-> FALSE]]

\* the call went to the network and did not resolve
Failed(call) ==
    /\ call.outcome.kind # "none"
    /\ ~call.hit
    /\ ~(call.outcome.kind = "ok" /\ TryException(call.outcome) = "none")

MainIdle ==
    /\ pc = "start"
    /\ token = NULL
    /\ inventory = <<>>
    /\ idx = 0
    /\ sites = EmptyDict
    /\ tloc_data = [kind |-> "unfetched", data |-> <<>>]
    /\ exitStatus = -1
    /\ crashedIn = "none"
    /\ rendered = {}
    /\ failure = "none"

InitGeo ==
    /\ cache = EmptyDict
    /\ lastCall = NoCall
    /\ ncalls = 0
    /\ firstOk = EmptyDict
    /\ MainIdle

\* one call of reverse_geocode_nominatim
Geocode ==
    /\ ncalls < MaxCalls
    /\ \E lat \in Lats, lon \in Lons, outcome \in Outcomes :
         LET r == reverse_geocode_nominatim(cache, lat, lon, outcome)
             key == CacheKey(lat, lon)
             resolved == /\ r.requests = 1
                         /\ r.raised = "none"
                         /\ outcome.kind = "ok"
                         /\ TryException(outcome) = "none"
         IN  /\ cache' = r.cache
             /\ lastCall' = [lat |-> lat, lon |-> lon, outcome |-> outcome,
                             hit |-> (key \in DOMAIN cache),
                             retry |-> (/\ Failed(lastCall)
                                        /\ CacheKey(lastCall.lat, lastCall.lon) = key),
                             result |-> r]
             /\ firstOk' = IF resolved /\ key \notin DOMAIN firstOk
                           THEN (key :> r.ret) @@ firstOk
                           ELSE firstOk
             /\ ncalls' = ncalls + 1
    /\ UNCHANGED mainVars

NextGeo == Geocode

SpecGeo == InitGeo /\ [][NextGeo]_vars

----------------------------------------------------------------------------
(* SDWANSiteExtractorWithGeo *)

\* authenticate: "True", "False", or the exception of a failed transport
authenticate(login, tokenResp) ==
    IF login = "error" THEN "raise"
    ELSE IF login = "200"
         THEN IF tokenResp = "error" THEN "raise"
              ELSE IF tokenResp = "200" THEN "True" ELSE "False"
         ELSE "False"

\* get_devices / get_tloc_data:
\*   response.json() if response.status_code == 200 else None
NoneResponse == [kind |-> "None", data |-> <<>>]

get_json(resp) ==
    IF resp.kind \in {"error", "bad_json"} THEN [kind |-> "raise", data |-> <<>>]
    ELSE IF resp.kind = "status" THEN NoneResponse
    ELSE resp

\* not devices_data or 'data' not in devices_data
NoDeviceData(devices_data) == devices_data.kind \in {"None", "no_data"}

ControlTypes == {"vmanage", "vsmart", "vbond"}

\* the default factory of the sites mapping
DefaultSite ==
    [devices |-> <<>>, location |-> NoneDict, geocoded_location |-> NoneDict,
     site_type |-> "unknown"]

\* sites[site_id] of the defaultdict
SiteOf(ss, site_id) == IF site_id \in DOMAIN ss THEN ss[site_id] ELSE DefaultSite

\* device.get('site-id', 'unknown')
SiteKey(device) == Get(device, "site-id", "unknown")

\* device.get('latitude') and device.get('longitude')
HasCoords(device) ==
    /\ Truthy(Get(device, "latitude", NULL))
    /\ Truthy(Get(device, "longitude", NULL))

\* float() of the two coordinates raises ValueError
CoordsUnparsable(device) ==
    \/ ~ParsableFloat(device["latitude"])
    \/ ~ParsableFloat(device["longitude"])

\* the device_info dict before location and tloc_info are attached
DeviceInfo(device) ==
    [hostname |-> Get(device, "host-name", "N/A"),
     system_ip |-> Get(device, "system-ip", "N/A"),
     device_type |-> Get(device, "device-type", "N/A"),
     device_model |-> Get(device, "device-model", "N/A"),
     reachability |-> Get(device, "reachability", "N/A"),
     version |-> Get(device, "version", "N/A"),
     platform |-> Get(device, "platform", "N/A")]

\* the location_info dict of a device with coordinates
DeviceLocation(device, geocoded) ==
    [latitude |-> ParseFloat(device["latitude"]),
     longitude |-> ParseFloat(device["longitude"]),
     is_device_gps |-> Get(device, "isDeviceGeoData", "False"),
     geocoded |-> geocoded]

\* if not sites[site_id]['location']: adopt the device's location
AdoptLocationLastWins(site, location_info, geocoded) ==
    [site EXCEPT !.location = location_info, !.geocoded_location = geocoded]

AdoptLocation(site, location_info, geocoded) ==
    IF site.location = NoneDict
    THEN [site EXCEPT !.location = location_info,
                      !.geocoded_location = geocoded]
    ELSE site

\* the site type after a device of this site
SiteTypeNotSticky(device, cur) ==
    IF Get(device, "device-type", NULL) \in ControlTypes
    THEN "control_plane"
    ELSE "branch"

SiteType(device, cur) ==
    IF Get(device, "device-type", NULL) \in ControlTypes
    THEN "control_plane"
    ELSE IF cur = "unknown" THEN "branch" ELSE cur

\* one iteration of the device loop of extract_sites_with_geocoding
ProcessOne(ss, c, device, outcome) ==
    LET site_id == SiteKey(device)
        site == SiteOf(ss, site_id)
    IN  IF HasCoords(device)
        THEN IF CoordsUnparsable(device)
             THEN [raised |-> "ValueError", sites |-> ss, cache |-> c]
             ELSE LET r == reverse_geocode_nominatim(c,
                               ParseFloat(device["latitude"]),
                               ParseFloat(device["longitude"]), outcome)
                      loc == DeviceLocation(device, r.ret)
                      located == AdoptLocation(site, loc, r.ret)
                      info == ("location" :> loc) @@ DeviceInfo(device)
                  IN  IF r.raised # "none"
                      THEN [raised |-> r.raised, sites |-> ss, cache |-> r.cache]
                      ELSE [raised |-> "none",
                            sites |-> (site_id :>
                               [located EXCEPT
                                  !.site_type = SiteType(device, located.site_type),
                                  !.devices = Append(located.devices, info)])
                               @@ ss,
                            cache |-> r.cache]
        ELSE [raised |-> "none",
              sites |-> (site_id :>
                 [site EXCEPT
                    !.site_type = SiteType(device, site.site_type),
                    !.devices = Append(site.devices, DeviceInfo(device))])
                 @@ ss,
              cache |-> c]

\* the TLOC summary of one tloc record
TlocSummary(tloc) ==
    [color |-> Get(tloc, "color", "N/A"),
     control_connections_up |-> Get(tloc, "controlConnectionsUp", "0"),
     bfd_sessions_up |-> Get(tloc, "bfdSessionsUp", "0")]

\* tloc_by_system_ip[system_ip], in input order
TlocsOf(tlocs, system_ip) ==
    LET Mine(t) == Truthy(Get(t, "system-ip", NULL))
                   /\ Get(t, "system-ip", NULL) = system_ip
        RECURSIVE Collect(_)
        Collect(i) == IF i > Len(tlocs) THEN <<>>
                      ELSE (IF Mine(tlocs[i]) THEN <<TlocSummary(tlocs[i])>>
                            ELSE <<>>) \o Collect(i + 1)
    IN  Collect(1)

\* Add TLOC info to devices
AttachTloc(ss, td) ==
    IF td.kind # "ok" THEN ss
    ELSE [k \in DOMAIN ss |->
            [ss[k] EXCEPT !.devices =
               [i \in 1..Len(ss[k].devices) |->
                  IF TlocsOf(td.data, ss[k].devices[i].system_ip) # <<>>
                  THEN ("tloc_info" :> TlocsOf(td.data, ss[k].devices[i].system_ip))
                       @@ ss[k].devices[i]
                  ELSE ss[k].devices[i]]]]

----------------------------------------------------------------------------
(* Responses of the controller *)

Device(f) ==
    LET d == Dict(f)
    IN  [k \in {IF x = "site_id" THEN "site-id"
                ELSE IF x = "host_name" THEN "host-name"
                ELSE IF x = "system_ip" THEN "system-ip"
                ELSE IF x = "device_type" THEN "device-type"
                ELSE x : x \in DOMAIN d} |->
           IF k = "site-id" THEN d.site_id
           ELSE IF k = "host-name" THEN d.host_name
           ELSE IF k = "system-ip" THEN d.system_ip
           ELSE IF k = "device-type" THEN d.device_type
           ELSE d[k]]

DeviceRecords ==
    { Device([site_id |-> "100", host_name |-> "r1", system_ip |-> "10.0.0.1",
              device_type |-> "vedge", reachability |-> "reachable",
              latitude |-> "37.7749", longitude |-> "-122.4194",
              isDeviceGeoData |-> OMIT]),
      Device([site_id |-> "100", host_name |-> "r2", system_ip |-> OMIT,
              device_type |-> "vedge", reachability |-> OMIT,
              latitude |-> OMIT, longitude |-> OMIT,
              isDeviceGeoData |-> OMIT]),
      Device([site_id |-> "100", host_name |-> "vm", system_ip |-> "10.0.0.3",
              device_type |-> "vmanage", reachability |-> "reachable",
              latitude |-> "1", longitude |-> "-122.4194",
              isDeviceGeoData |-> "True"]),
      Device([site_id |-> OMIT, host_name |-> "vs", system_ip |-> "10.0.0.4",
              device_type |-> "vsmart", reachability |-> "unreachable",
              latitude |-> OMIT, longitude |-> OMIT,
              isDeviceGeoData |-> OMIT]),
      Device([site_id |-> "100", host_name |-> "vb", system_ip |-> "10.0.0.5",
              device_type |-> "vbond", reachability |-> "reachable",
              latitude |-> "37.7749", longitude |-> OMIT,
              isDeviceGeoData |-> OMIT]),
      Device([site_id |-> "100", host_name |-> OMIT, system_ip |-> "10.0.0.6",
              device_type |-> OMIT, reachability |-> OMIT,
              latitude |-> "", longitude |-> "-122.4194",
              isDeviceGeoData |-> OMIT]),
      Device([site_id |-> "100", host_name |-> "r7", system_ip |-> "10.0.0.7",
              device_type |-> "vedge", reachability |-> "reachable",
              latitude |-> "abc", longitude |-> "-122.4194",
              isDeviceGeoData |-> OMIT]),
      Device([site_id |-> "100", host_name |-> "r8", system_ip |-> "10.0.0.1",
              device_type |-> "vedge", reachability |-> "reachable",
              latitude |-> "1.0", longitude |-> "-122.4194",
              isDeviceGeoData |-> OMIT]) }

Inventories == UNION {[1..n -> DeviceRecords] : n \in 0..MaxDevices}

DeviceResponses ==
    {[kind |-> "error"], [kind |-> "status"], [kind |-> "bad_json"],
     [kind |-> "no_data", data |-> <<>>]}
    \cup {[kind |-> "ok", data |-> inv] : inv \in Inventories}

Tloc(ip, color) ==
    IF ip = OMIT
    THEN [k \in {"color", "controlConnectionsUp", "bfdSessionsUp"} |->
            IF k = "color" THEN color ELSE "2"]
    ELSE [k \in {"system-ip", "color", "controlConnectionsUp", "bfdSessionsUp"} |->
            IF k = "system-ip" THEN ip ELSE IF k = "color" THEN color ELSE "2"]

TlocResponses ==
    {[kind |-> "error"], [kind |-> "status"],
     [kind |-> "ok", data |-> <<Tloc("10.0.0.1", "mpls"), Tloc(OMIT, "lte"),
                                Tloc("10.0.0.1", "biz-internet")>>]}

PipelineOutcomes ==
    {[kind |-> "timeout"], [kind |-> "status"],
     [kind |-> "ok",
      data |-> [display_name |-> "somewhere",
                address |-> Address([city |-> "San Francisco", town |-> OMIT,
                                     village |-> OMIT, hamlet |-> OMIT],
                                    CHOOSE rp \in RestParts : rp.state # OMIT)]]}

----------------------------------------------------------------------------
(* main *)

Init ==
    /\ cache = EmptyDict
    /\ lastCall = NoCall
    /\ ncalls = 0
    /\ firstOk = EmptyDict
    /\ MainIdle

\* an exception nobody catches ends the process with a traceback, status 1
Crash(where) ==
    /\ pc' = "crashed"
    /\ crashedIn' = where
    /\ exitStatus' = 1

\* extractor.authenticate() and the check of its result in main
Authenticate ==
    /\ pc = "start"
    /\ \E login \in {"200", "401", "error"}, tokenResp \in {"200", "403", "error"} :
         LET a == authenticate(login, tokenResp)
         IN  IF a = "raise"
             THEN Crash("authenticate") /\ UNCHANGED <<token, failure>>
             ELSE IF a = "True"
             THEN /\ token' = "token"
                  /\ pc' = "authenticated"
                  /\ UNCHANGED <<crashedIn, exitStatus, failure>>
             ELSE /\ pc' = "done"
                  /\ exitStatus' = 1
                  /\ failure' = "authentication"
                  /\ UNCHANGED <<token, crashedIn>>
    /\ UNCHANGED <<cache, geoVars, inventory, idx, sites, tloc_data, rendered>>

\* extract_sites_with_geocoding up to the device loop: the two fetches
FetchData ==
    /\ pc = "authenticated"
    /\ \E dresp \in DeviceResponses, tresp \in TlocResponses :
         LET devices_data == get_json(dresp)
             td == get_json(tresp)
         IN  IF devices_data.kind = "raise"
             THEN /\ Crash("get_devices")
                  /\ UNCHANGED <<inventory, tloc_data, failure>>
             ELSE IF NoDeviceData(devices_data)
             THEN /\ pc' = "done"
                  /\ exitStatus' = 0
                  /\ failure' = "inventory"
                  /\ UNCHANGED <<inventory, tloc_data, crashedIn>>
             ELSE IF td.kind = "raise"
             THEN /\ Crash("get_tloc_data")
                  /\ UNCHANGED <<inventory, tloc_data, failure>>
             ELSE /\ inventory' = devices_data.data
                  /\ tloc_data' = td
                  /\ pc' = "loop"
                  /\ UNCHANGED <<crashedIn, exitStatus, failure>>
    /\ UNCHANGED <<cache, geoVars, token, idx, sites, rendered>>

\* one iteration of the loop over devices_data['data']
ProcessDevice ==
    /\ pc = "loop"
    /\ idx < Len(inventory)
    /\ \E outcome \in PipelineOutcomes :
         LET r == ProcessOne(sites, cache, inventory[idx + 1], outcome)
         IN  IF r.raised # "none"
             THEN /\ Crash("extract_sites_with_geocoding")
                  /\ cache' = r.cache
                  /\ UNCHANGED <<sites, idx>>
             ELSE /\ sites' = r.sites
                  /\ cache' = r.cache
                  /\ idx' = idx + 1
                  /\ UNCHANGED <<pc, crashedIn, exitStatus>>
    /\ UNCHANGED <<geoVars, token, inventory, tloc_data, rendered, failure>>

\* the TLOC pass, the return of dict(sites) and the check "if sites" in main
FinishExtract ==
    /\ pc = "loop"
    /\ idx = Len(inventory)
    /\ sites' = AttachTloc(sites, tloc_data)
    /\ IF DOMAIN sites # {}
       THEN /\ pc' = "report"
            /\ UNCHANGED <<exitStatus, failure>>
       ELSE /\ pc' = "done"
            /\ exitStatus' = 0
            /\ failure' = "empty_inventory"
    /\ UNCHANGED <<cache, geoVars, token, inventory, idx, tloc_data,
                   crashedIn, rendered>>

\* report, location summary, JSON export to the fixed path, usage guide
Report ==
    /\ pc = "report"
    /\ \E writable \in BOOLEAN :
         IF writable
         THEN /\ rendered' = {"report", "summary", "export", "guide"}
              /\ pc' = "done"
              /\ exitStatus' = 0
              /\ UNCHANGED crashedIn
         ELSE /\ rendered' = {"report", "summary"}
              /\ Crash("main")
    /\ UNCHANGED <<cache, geoVars, token, inventory, idx, sites, tloc_data,
                   failure>>

Next ==
    \/ Authenticate
    \/ FetchData
    \/ ProcessDevice
    \/ FinishExtract
    \/ Report

Spec == Init /\ [][Next]_vars

----------------------------------------------------------------------------
(* Properties of GeocodeService, checked under SpecGeo *)

LastKey == CacheKey(lastCall.lat, lastCall.lon)

\* C1: once a call for a coordinate pair has resolved (HTTP 200, response
\* parsed into a location), every later call for the same pair issues no
\* network request and returns the result of that first resolution.
C1_CacheHit ==
    [][(ncalls' = ncalls + 1
        /\ CacheKey(lastCall'.lat, lastCall'.lon) \in DOMAIN firstOk)
       => /\ lastCall'.result.requests = 0
          /\ lastCall'.result.raised = "none"
          /\ lastCall'.result.ret
               = firstOk[CacheKey(lastCall'.lat, lastCall'.lon)]]_vars

C1_Witness ==
    /\ ncalls >= 2
    /\ LastKey \in DOMAIN firstOk
    /\ lastCall.hit
    /\ lastCall.outcome.kind = "timeout"
    /\ lastCall.result.requests = 0
    /\ lastCall.result.ret = firstOk[LastKey]

\* C2: a failed call returns the placeholder and leaves the cache unchanged;
\* the cache holds exactly the results of successful resolutions, and the
\* call after a failed one for the same pair goes to the network again.
C2_FailureNotCached ==
    [][ncalls' = ncalls + 1
       => /\ Failed(lastCall')
               => /\ cache' = cache
                  /\ lastCall'.result.ret
                       = Placeholder(lastCall'.lat, lastCall'.lon)
          /\ (Failed(lastCall)
              /\ CacheKey(lastCall'.lat, lastCall'.lon) = LastKey)
               => lastCall'.result.requests = 1
          /\ cache' = firstOk']_vars

C2_Witness ==
    /\ lastCall.retry
    /\ Failed(lastCall)
    /\ lastCall.result.requests = 1
    /\ LastKey \notin DOMAIN cache

\* C3: no call raises; every call returns a record with the seven fields,
\* and a timed-out call returns formatted_address "{lat}, {lon}" and city
\* "Unknown City".
C3_NeverRaises ==
    lastCall.outcome.kind # "none"
    => /\ lastCall.result.raised = "none"
       /\ DOMAIN lastCall.result.ret = GeoFields
       /\ (lastCall.outcome.kind = "timeout" /\ ~lastCall.hit)
            => /\ lastCall.result.ret.formatted_address
                    = lastCall.lat \o ", " \o lastCall.lon
               /\ lastCall.result.ret.city = "Unknown City"

C3_Witness ==
    /\ lastCall.outcome.kind = "timeout"
    /\ ~lastCall.hit
    /\ lastCall.result.raised = "none"
    /\ lastCall.result.ret.formatted_address = "37.7749, -122.4194"

\* C4: every network request is followed by the one-second pause before the
\* call returns, whatever the outcome of the request.
C4_PauseAfterEveryRequest ==
    lastCall.result.sleeps = lastCall.result.requests

\* the first present, non-empty value among city, town, village, hamlet
FirstNonEmpty(address, keys) ==
    LET RECURSIVE First(_)
        First(i) ==
            IF i > Len(keys) THEN "Unknown City"
            ELSE IF keys[i] \in DOMAIN address
                    /\ address[keys[i]] \notin {NULL, ""}
                 THEN address[keys[i]]
                 ELSE First(i + 1)
    IN  First(1)

\* C10: on a resolved response the city is the first present, non-empty
\* value among city, town, village, hamlet, and "Unknown City" when there is
\* none; it is never null or empty.
C10_CityFallback ==
    (/\ lastCall.outcome.kind = "ok"
     /\ ~lastCall.hit
     /\ TryException(lastCall.outcome) = "none")
    => /\ lastCall.result.ret.city
            = FirstNonEmpty(Get(lastCall.outcome.data, "address", EmptyDict),
                            <<"city", "town", "village", "hamlet">>)
       /\ lastCall.result.ret.city \notin {NULL, ""}

----------------------------------------------------------------------------
(* Properties of aggregation and of main, checked under Spec *)

\* the position of device i of the inventory in its site's device list
SitePos(i) ==
    Cardinality({j \in 1..i : SiteKey(inventory[j]) = SiteKey(inventory[i])})

\* the record has a latitude and a longitude value
Carries(d) ==
    /\ "latitude" \in DOMAIN d
    /\ "longitude" \in DOMAIN d
    /\ d["latitude"] # ""
    /\ d["longitude"] # ""

IsControl(d) == "device-type" \in DOMAIN d /\ d["device-type"] \in ControlTypes

\* C5: once a vmanage, vsmart or vbond device has been processed for a site,
\* the site's type is control_plane in every later state, whatever devices
\* of the site came before or come after it.
C5_ControlPlaneSticky ==
    \A i \in 1..idx :
        IsControl(inventory[i])
        => /\ SiteKey(inventory[i]) \in DOMAIN sites
           /\ sites[SiteKey(inventory[i])].site_type = "control_plane"

C5_Witness ==
    /\ pc = "done"
    /\ idx = 3
    /\ \A i \in 1..3 : SiteKey(inventory[i]) = "100"
    /\ ~IsControl(inventory[1])
    /\ IsControl(inventory[2])
    /\ ~IsControl(inventory[3])
    /\ sites["100"].site_type = "control_plane"

C7_FatalFailuresExitNonZero ==
    /\ (pc = "done" /\ failure \in {"authentication", "inventory"})
         => (exitStatus # 0 /\ rendered = {})
    /\ (pc = "done" /\ failure = "none" /\ tloc_data.kind = "None")
         => (exitStatus = 0 /\ {"report", "summary", "export"} \subseteq rendered)

\* C8: no failure of authenticate, get_devices or get_tloc_data escapes as an
\* exception, and the token is set exactly when authentication succeeded.
C8_ControllerClientNeverThrows ==
    /\ crashedIn \notin {"authenticate", "get_devices", "get_tloc_data"}
    /\ (token # NULL) <=> (pc # "start" /\ failure # "authentication"
                           /\ crashedIn # "authenticate")

\* C9: aggregation never aborts on a device record: every device of the
\* inventory processed so far is in its site's device list.
C9_MalformedFieldsTolerated ==
    /\ crashedIn # "extract_sites_with_geocoding"
    /\ \A i \in 1..idx :
          /\ SiteKey(inventory[i]) \in DOMAIN sites
          /\ SitePos(i) <= Len(sites[SiteKey(inventory[i])].devices)

====
